---------------------------- MODULE Spec2Model ----------------------------
(***************************************************************************)
(* The chess rules and game-state engine of src/chess.js: board, move      *)
(* validation and generation, legality filter, move execution, undo,       *)
(* end-of-game evaluation, new game, the AI toggle and the deferred        *)
(* depth-2 AI move.  Rendering (meshes, camera, toasts) is left out: it    *)
(* never feeds back into the engine state.                                 *)
(***************************************************************************)
EXTENDS Integers, Sequences, FiniteSets, TLC

\* chess.js line 7
SIZE == 8

Rng == 0 .. (SIZE - 1)

\* A JS null board cell / null captured entry.
Null == [type |-> "none", color |-> "none"]

Piece(t, c) == [type |-> t, color |-> c]

Move(fx, fz, tx, tz) == [fromX |-> fx, fromZ |-> fz, toX |-> tx, toZ |-> tz]

AllMoves == { Move(fx, fz, tx, tz) : fx \in Rng, fz \in Rng, tx \in Rng, tz \in Rng }

Abs(n) == IF n < 0 THEN -n ELSE n

Sign(n) == IF n > 0 THEN 1 ELSE IF n < 0 THEN -1 ELSE 0

MaxOf(a, b) == IF a >= b THEN a ELSE b

Other(c) == IF c = "white" THEN "black" ELSE "white"

\* chess.js line 8
PIECE_VALUES(t) ==
    CASE t = "pawn" -> 100
      [] t = "knight" -> 320
      [] t = "bishop" -> 330
      [] t = "rook" -> 500
      [] t = "queen" -> 900
      [] t = "king" -> 20000
      [] OTHER -> 0

\* chess.js initBoardState: an 8x8 grid of null, indexed [z][x].
initBoardState == [z \in Rng |-> [x \in Rng |-> Null]]

\* chess.js spawnPiece, engine part: boardState[z][x] = { type, color }.
spawnPiece(bs, t, c, x, z) == [bs EXCEPT ![z][x] = Piece(t, c)]

back == <<"rook", "knight", "bishop", "queen", "king", "bishop", "knight", "rook">>

\* chess.js createPieces lines 171-176: the loop from column i on.
RECURSIVE SpawnFrom(_, _)
SpawnFrom(bs, i) ==
    IF i >= 8 THEN bs
    ELSE SpawnFrom(spawnPiece(spawnPiece(spawnPiece(spawnPiece(bs,
                       back[i + 1], "black", i, 0),
                       "pawn", "black", i, 1),
                       "pawn", "white", i, 6),
                       back[i + 1], "white", i, 7), i + 1)

\* chess.js createPieces, acting on the grid bs.
createPieces(bs) == SpawnFrom(bs, 0)

isInside(x, z) == x >= 0 /\ x < 8 /\ z >= 0 /\ z < 8

\* chess.js cloneBoard: a fresh grid holding fresh { type, color } cells.
\* (f @@ <<>> is f, built once as a table of values.)
cloneBoard(bs) ==
    [z \in Rng |-> [x \in Rng |->
        IF bs[z][x] # Null
        THEN [type |-> bs[z][x].type, color |-> bs[z][x].color]
        ELSE Null] @@ <<>>] @@ <<>>

\* applyMoveOnClone that leaves a pawn on the last row a pawn.
applyMoveOnCloneNoPromotion(bs, move) ==
    LET piece == bs[move.fromZ][move.fromX]
        b1 == [bs EXCEPT ![move.toZ][move.toX] = piece]
    IN  [b1 EXCEPT ![move.fromZ][move.fromX] = Null]

\* chess.js applyMoveOnClone: the board held by bs after the call.
applyMoveOnClone(bs, move) ==
    LET piece == bs[move.fromZ][move.fromX]
        b1 == [bs EXCEPT ![move.toZ][move.toX] = piece]
        b2 == [b1 EXCEPT ![move.fromZ][move.fromX] = Null]
    IN  IF piece # Null /\ piece.type = "pawn" /\ (move.toZ = 0 \/ move.toZ = 7)
        THEN [b2 EXCEPT ![move.toZ][move.toX].type = "queen"]
        ELSE b2

\* The while loop of chess.js isPathClear, from the running square (x, z).
RECURSIVE PathLoop(_, _, _, _, _, _, _)
PathLoop(bs, x, z, tX, tZ, sx, sz) ==
    IF x # tX \/ z # tZ
    THEN IF bs[z][x] # Null THEN FALSE
         ELSE PathLoop(bs, x + sx, z + sz, tX, tZ, sx, sz)
    ELSE TRUE

isPathClear(bs, fX, fZ, tX, tZ) ==
    LET sx == Sign(tX - fX)
        sz == Sign(tZ - fZ)
    IN  PathLoop(bs, fX + sx, fZ + sz, tX, tZ, sx, sz)

\* chess.js isPseudoLegal(move, bs, forCheck) for in-range squares.
isPseudoLegal(move, bs, forCheck) ==
    LET piece == bs[move.fromZ][move.fromX]
        dx == move.toX - move.fromX
        dz == move.toZ - move.fromZ
        adx == Abs(dx)
        adz == Abs(dz)
        target == bs[move.toZ][move.toX]
    IN  IF piece = Null THEN FALSE
        ELSE IF ~forCheck /\ target # Null /\ target.color = piece.color THEN FALSE
        ELSE CASE piece.type = "pawn" ->
                    LET dir == IF piece.color = "white" THEN -1 ELSE 1
                        start == IF piece.color = "white" THEN 6 ELSE 1
                    IN  IF dx = 0
                        THEN IF dz = dir /\ target = Null THEN TRUE
                             ELSE IF /\ dz = 2 * dir
                                     /\ move.fromZ = start
                                     /\ target = Null
                                     /\ bs[move.fromZ + dir][move.fromX] = Null
                                  THEN TRUE
                                  ELSE FALSE
                        ELSE IF Abs(dx) = 1 /\ dz = dir
                             THEN target # Null /\ target.color # piece.color
                             ELSE FALSE
               [] piece.type = "rook" ->
                    IF dx # 0 /\ dz # 0 THEN FALSE
                    ELSE isPathClear(bs, move.fromX, move.fromZ, move.toX, move.toZ)
               [] piece.type = "bishop" ->
                    IF adx # adz THEN FALSE
                    ELSE isPathClear(bs, move.fromX, move.fromZ, move.toX, move.toZ)
               [] piece.type = "queen" ->
                    IF dx = 0 \/ dz = 0 \/ adx = adz
                    THEN isPathClear(bs, move.fromX, move.fromZ, move.toX, move.toZ)
                    ELSE FALSE
               [] piece.type = "knight" ->
                    (adx = 1 /\ adz = 2) \/ (adx = 2 /\ adz = 1)
               [] piece.type = "king" -> MaxOf(adx, adz) = 1
               [] OTHER -> FALSE

\* Squares in the scan order of "for z ... for x ...": index i = 8 * z + x.
SqX(i) == i % SIZE

SqZ(i) == i \div SIZE

\* chess.js isKingInCheck lines 236-237: the last king of player in scan
\* order, or -1 when there is none.
KingIndex(bs, player) ==
    LET ks == { i \in 0 .. (SIZE * SIZE - 1) :
                    /\ bs[SqZ(i)][SqX(i)] # Null
                    /\ bs[SqZ(i)][SqX(i)].type = "king"
                    /\ bs[SqZ(i)][SqX(i)].color = player }
    IN  IF ks = {} THEN -1 ELSE CHOOSE i \in ks : \A j \in ks : j <= i

\* isKingInCheck that reports a missing king as safe.
isKingInCheckMissingIsSafe(bs, player) ==
    LET k == KingIndex(bs, player)
        opp == Other(player)
    IN  IF k = -1 THEN FALSE
        ELSE \E z \in Rng, x \in Rng :
                /\ bs[z][x] # Null
                /\ bs[z][x].color = opp
                /\ isPseudoLegal(Move(x, z, SqX(k), SqZ(k)), bs, TRUE)

\* chess.js isKingInCheck
isKingInCheck(bs, player) ==
    LET k == KingIndex(bs, player)
        opp == Other(player)
    IN  IF k = -1 THEN TRUE
        ELSE \E z \in Rng, x \in Rng :
                /\ bs[z][x] # Null
                /\ bs[z][x].color = opp
                /\ isPseudoLegal(Move(x, z, SqX(k), SqZ(k)), bs, TRUE)

\* isLegalMove without the simulation: the king-safety test is left out.
isLegalMoveNoKingTest(bs, move, player) ==
    LET from == bs[move.fromZ][move.fromX]
    IN  IF from = Null \/ from.color # player THEN FALSE
        ELSE isPseudoLegal(move, bs, FALSE)

\* chess.js isLegalMove(move, player); bs is the live boardState it reads.
isLegalMove(bs, move, player) ==
    LET from == bs[move.fromZ][move.fromX]
    IN  IF from = Null \/ from.color # player THEN FALSE
        ELSE IF ~isPseudoLegal(move, bs, FALSE) THEN FALSE
        ELSE ~isKingInCheck(applyMoveOnClone(cloneBoard(bs), move), player)


Dest(x, z) == [toX |-> x, toZ |-> z]

\* One forEach step list of generatePseudoMoves (knight, king): the offsets
\* d[i..] applied in order, kept when inside and not on an own piece.
RECURSIVE StepMoves(_, _, _, _, _, _)
StepMoves(bs, x, z, color, d, i) ==
    IF i > Len(d) THEN <<>>
    ELSE LET nx == x + d[i][1]
             nz == z + d[i][2]
         IN  (IF isInside(nx, nz) /\ (bs[nz][nx] = Null \/ bs[nz][nx].color # color)
              THEN <<Dest(nx, nz)>> ELSE <<>>)
             \o StepMoves(bs, x, z, color, d, i + 1)

\* The sliding loop that stops in front of an enemy piece instead of on it.
RECURSIVE RayNoCapture(_, _, _, _, _, _)
RayNoCapture(bs, nx, nz, dx, dz, color) ==
    IF ~isInside(nx, nz) THEN <<>>
    ELSE IF bs[nz][nx] = Null
         THEN <<Dest(nx, nz)>> \o RayNoCapture(bs, nx + dx, nz + dz, dx, dz, color)
         ELSE <<>>

\* The while loop of generatePseudoMoves for one sliding direction.
RECURSIVE Ray(_, _, _, _, _, _)
Ray(bs, nx, nz, dx, dz, color) ==
    IF ~isInside(nx, nz) THEN <<>>
    ELSE IF bs[nz][nx] = Null
         THEN <<Dest(nx, nz)>> \o Ray(bs, nx + dx, nz + dz, dx, dz, color)
         ELSE IF bs[nz][nx].color # color THEN <<Dest(nx, nz)>> ELSE <<>>

RECURSIVE Rays(_, _, _, _, _, _)
Rays(bs, x, z, color, dirs, i) ==
    IF i > Len(dirs) THEN <<>>
    ELSE Ray(bs, x + dirs[i][1], z + dirs[i][2], dirs[i][1], dirs[i][2], color)
         \o Rays(bs, x, z, color, dirs, i + 1)

KnightSteps == << <<1, 2>>, <<2, 1>>, <<-1, 2>>, <<-2, 1>>,
                  <<1, -2>>, <<2, -1>>, <<-1, -2>>, <<-2, -1>> >>

RookDirs == << <<1, 0>>, <<-1, 0>>, <<0, 1>>, <<0, -1>> >>

BishopDirs == << <<1, 1>>, <<1, -1>>, <<-1, 1>>, <<-1, -1>> >>

QueenDirs == RookDirs \o BishopDirs

\* for dx = -1..1, for dz = -1..1, skipping (0, 0)
KingSteps == << <<-1, -1>>, <<-1, 0>>, <<-1, 1>>, <<0, -1>>,
                <<0, 1>>, <<1, -1>>, <<1, 0>>, <<1, 1>> >>

\* chess.js generatePseudoMoves(x, z, bs): destinations in generation order.
generatePseudoMoves(x, z, bs) ==
    LET p == bs[z][x]
        t == p.type
        color == p.color
        dir == IF color = "white" THEN -1 ELSE 1
        start == IF color = "white" THEN 6 ELSE 1
    IN  IF p = Null THEN <<>>
        ELSE CASE t = "pawn" ->
                    (IF isInside(x, z + dir) /\ bs[z + dir][x] = Null
                     THEN <<Dest(x, z + dir)>> ELSE <<>>)
                    \o (IF z = start /\ bs[z + dir][x] = Null /\ bs[z + 2 * dir][x] = Null
                        THEN <<Dest(x, z + 2 * dir)>> ELSE <<>>)
                    \o (IF /\ isInside(x - 1, z + dir)
                           /\ bs[z + dir][x - 1] # Null
                           /\ bs[z + dir][x - 1].color # color
                        THEN <<Dest(x - 1, z + dir)>> ELSE <<>>)
                    \o (IF /\ isInside(x + 1, z + dir)
                           /\ bs[z + dir][x + 1] # Null
                           /\ bs[z + dir][x + 1].color # color
                        THEN <<Dest(x + 1, z + dir)>> ELSE <<>>)
               [] t = "knight" -> StepMoves(bs, x, z, color, KnightSteps, 1)
               [] t = "rook" -> Rays(bs, x, z, color, RookDirs, 1)
               [] t = "bishop" -> Rays(bs, x, z, color, BishopDirs, 1)
               [] t = "queen" -> Rays(bs, x, z, color, QueenDirs, 1)
               [] t = "king" -> StepMoves(bs, x, z, color, KingSteps, 1)
               [] OTHER -> <<>>

\* chess.js allLegalMovesFor lines 442-445 for the piece on (x, z): the
\* destinations ds[j..] in order, each kept when isLegalMove accepts it on
\* board live.
RECURSIVE Keep(_, _, _, _, _, _)
Keep(live, player, x, z, ds, j) ==
    IF j > Len(ds) THEN <<>>
    ELSE (IF isLegalMove(live, Move(x, z, ds[j].toX, ds[j].toZ), player)
          THEN <<Move(x, z, ds[j].toX, ds[j].toZ)>> ELSE <<>>)
         \o Keep(live, player, x, z, ds, j + 1)

\* The inner loop "for x" of the scan, from column x on: the candidate moves
\* of player's pieces on board gen, filtered on board live.
RECURSIVE LegalRow(_, _, _, _, _)
LegalRow(gen, live, player, z, x) ==
    IF x >= SIZE THEN <<>>
    ELSE (IF gen[z][x] = Null \/ gen[z][x].color # player THEN <<>>
          ELSE Keep(live, player, x, z, generatePseudoMoves(x, z, gen), 1))
         \o LegalRow(gen, live, player, z, x + 1)

\* The outer loop "for z" of the scan, from row z on.
RECURSIVE LegalFrom(_, _, _, _)
LegalFrom(gen, live, player, z) ==
    IF z >= SIZE THEN <<>>
    ELSE LegalRow(gen, live, player, z, 0) \o LegalFrom(gen, live, player, z + 1)

\* chess.js allLegalMovesFor(player) on the live board bs.
allLegalMovesFor(bs, player) == LegalFrom(bs, bs, player, 0)

\* chess.js evaluateMaterial: the inner loop "for x", from column x on.
RECURSIVE MaterialRow(_, _, _)
MaterialRow(bs, z, x) ==
    IF x >= SIZE THEN 0
    ELSE (IF bs[z][x] = Null THEN 0
          ELSE (IF bs[z][x].color = "white" THEN 1 ELSE -1) * PIECE_VALUES(bs[z][x].type))
         + MaterialRow(bs, z, x + 1)

\* The outer loop "for z", from row z on.
RECURSIVE MaterialFrom(_, _)
MaterialFrom(bs, z) ==
    IF z >= SIZE THEN 0
    ELSE MaterialRow(bs, z, 0) + MaterialFrom(bs, z + 1)

evaluateMaterial(bs) == MaterialFrom(bs, 0)

(***************************************************************************)
(* The engine state as one record, so that each handler is a function from *)
(* the state before the call to the state after it.  timers counts the     *)
(* pending setTimeout(makeBestAIMove, ...) callbacks.                      *)
(***************************************************************************)
StatusCheckmated(c) == IF c = "white" THEN "White is checkmated!" ELSE "Black is checkmated!"

\* chess.js evaluateGameState
evaluateGameState(s) ==
    LET opponent == s.currentPlayer
        legal == allLegalMovesFor(s.boardState, opponent)
        inCheck == isKingInCheck(s.boardState, opponent)
    IN  IF Len(legal) = 0
        THEN [s EXCEPT !.gameState = "ended",
                       !.statusBox = IF inCheck THEN StatusCheckmated(opponent)
                                     ELSE "Stalemate"]
        ELSE [s EXCEPT !.statusBox = "Game in Progress"]

\* chess.js performMove lines 358-365: toggle player, evaluate, schedule the AI.
FinishMove(s) ==
    LET s1 == [s EXCEPT !.currentPlayer = Other(s.currentPlayer)]
        s2 == evaluateGameState(s1)
    IN  IF s2.useAI /\ s2.currentPlayer = "black" /\ s2.gameState = "playing"
        THEN [s2 EXCEPT !.timers = @ + 1]
        ELSE s2

\* The board update of performMove without the promotion.
BoardAfterNoPromotion(bs, move) ==
    LET from == bs[move.fromZ][move.fromX]
        b1 == [bs EXCEPT ![move.toZ][move.toX] =
                             [type |-> from.type, color |-> from.color]]
    IN  [b1 EXCEPT ![move.fromZ][move.fromX] = Null]

\* chess.js performMove lines 329-344: the piece goes to its destination,
\* the source square is cleared, a pawn on row 0 or 7 becomes a queen.
BoardAfter(bs, move) ==
    LET from == bs[move.fromZ][move.fromX]
        b1 == [bs EXCEPT ![move.toZ][move.toX] =
                             [type |-> from.type, color |-> from.color]]
        b2 == [b1 EXCEPT ![move.fromZ][move.fromX] = Null]
    IN  IF from.type = "pawn" /\ (move.toZ = 0 \/ move.toZ = 7)
        THEN [b2 EXCEPT ![move.toZ][move.toX].type = "queen"]
        ELSE b2

\* chess.js performMove
performMove(s, move) ==
    LET target == s.boardState[move.toZ][move.toX]
        mover == s.currentPlayer
        entry == [move |-> move,
                  captured |-> IF target # Null
                               THEN [type |-> target.type, color |-> target.color]
                               ELSE Null,
                  mover |-> mover]
        caps == IF target # Null
                THEN [s.captured EXCEPT ![mover] = Append(@, target.type)]
                ELSE s.captured
    IN  FinishMove([s EXCEPT !.moveHistory = Append(@, entry),
                             !.captured = caps,
                             !.boardState = BoardAfter(s.boardState, move)])

\* onPointerDown that asks only whether the piece moves that way, not whether
\* the mover's king is left in check.
onPointerDownUnfiltered(s, move) ==
    IF s.gameState # "playing" THEN s
    ELSE IF /\ s.boardState[move.fromZ][move.fromX].color = s.currentPlayer
            /\ isPseudoLegal(move, s.boardState, FALSE)
         THEN performMove(s, move)
         ELSE s

\* chess.js onPointerDown lines 199-209 with the selected piece on
\* (fromX, fromZ) and the clicked square (toX, toZ).
onPointerDown(s, move) ==
    IF s.gameState # "playing" THEN s
    ELSE IF isLegalMove(s.boardState, move, s.currentPlayer)
         THEN performMove(s, move)
         ELSE s

\* undoMove that respawns the captured piece but leaves the mover's captured
\* list as it is.
undoMoveKeepsCaptured(s) ==
    IF Len(s.moveHistory) = 0 THEN s
    ELSE LET last == s.moveHistory[Len(s.moveHistory)]
             m == last.move
             cap == last.captured
             b1 == [s.boardState EXCEPT ![m.fromZ][m.fromX] = s.boardState[m.toZ][m.toX]]
             b2 == [b1 EXCEPT ![m.toZ][m.toX] = Null]
         IN  [s EXCEPT !.moveHistory = SubSeq(@, 1, Len(@) - 1),
                       !.boardState = IF cap # Null
                                      THEN spawnPiece(b2, cap.type, cap.color, m.toX, m.toZ)
                                      ELSE b2,
                       !.currentPlayer = last.mover,
                       !.gameState = "playing",
                       !.statusBox = "Game in Progress"]

\* undoMove that hands the turn to the opponent of the entry's mover.
undoMoveWrongTurn(s) ==
    IF Len(s.moveHistory) = 0 THEN s
    ELSE [undoMoveKeepsCaptured(s) EXCEPT
              !.captured = IF s.moveHistory[Len(s.moveHistory)].captured # Null
                           THEN [s.captured EXCEPT
                                    ![s.moveHistory[Len(s.moveHistory)].mover] =
                                        SubSeq(@, 1, Len(@) - 1)]
                           ELSE s.captured,
              !.currentPlayer = Other(s.moveHistory[Len(s.moveHistory)].mover)]

\* chess.js undoMove
undoMove(s) ==
    IF Len(s.moveHistory) = 0 THEN s
    ELSE LET last == s.moveHistory[Len(s.moveHistory)]
             m == last.move
             cap == last.captured
             mover == last.mover
             moved == s.boardState[m.toZ][m.toX]
             b1 == [s.boardState EXCEPT ![m.fromZ][m.fromX] = moved]
             b2 == [b1 EXCEPT ![m.toZ][m.toX] = Null]
             b3 == IF cap # Null THEN spawnPiece(b2, cap.type, cap.color, m.toX, m.toZ)
                   ELSE b2
             caps == IF cap # Null /\ Len(s.captured[mover]) > 0
                     THEN [s.captured EXCEPT ![mover] = SubSeq(@, 1, Len(@) - 1)]
                     ELSE s.captured
         IN  [s EXCEPT !.moveHistory = SubSeq(@, 1, Len(@) - 1),
                       !.boardState = b3,
                       !.captured = caps,
                       !.currentPlayer = mover,
                       !.gameState = "playing",
                       !.statusBox = "Game in Progress"]

\* resetGame that forgets to empty the captured lists.
resetGameKeepsCaptured(s) ==
    [s EXCEPT !.boardState = createPieces(initBoardState),
              !.currentPlayer = "white",
              !.gameState = "playing",
              !.moveHistory = <<>>,
              !.statusBox = "Game in Progress"]

\* resetGame that leaves the turn where it was.
resetGameKeepsTurn(s) ==
    [s EXCEPT !.boardState = createPieces(initBoardState),
              !.gameState = "playing",
              !.moveHistory = <<>>,
              !.captured = [white |-> <<>>, black |-> <<>>],
              !.statusBox = "Game in Progress"]

\* chess.js resetGame
resetGame(s) ==
    [s EXCEPT !.boardState = createPieces(initBoardState),
              !.currentPlayer = "white",
              !.gameState = "playing",
              !.moveHistory = <<>>,
              !.captured = [white |-> <<>>, black |-> <<>>],
              !.statusBox = "Game in Progress"]

\* chess.js toggleAI
toggleAI(s) ==
    LET s1 == [s EXCEPT !.useAI = ~s.useAI]
    IN  IF s1.useAI /\ s1.currentPlayer = "black"
        THEN [s1 EXCEPT !.timers = @ + 1]
        ELSE s1

\* chess.js makeBestAIMove lines 456-462 on the clone holding candidate m:
\* the replies are generated on the clone and filtered by isLegalMove, which
\* reads the live boardState; worst is the Math.max of the replies' scores.
WorstOn(clone, live) ==
    LET oppMoves == LegalFrom(clone, live, "white", 0)
        scores == { evaluateMaterial(applyMoveOnClone(cloneBoard(clone), oppMoves[i])) :
                      i \in 1 .. Len(oppMoves) }
    IN  IF Len(oppMoves) = 0 THEN evaluateMaterial(clone)
        ELSE CHOOSE w \in scores : \A v \in scores : v <= w

\* chess.js makeBestAIMove line 455 and on: the score "worst" of candidate m.
Worst(live, m) ==
    CHOOSE w \in { WorstOn(clone, live) :
                     clone \in { applyMoveOnClone(cloneBoard(live), m) } } : TRUE

\* The scores of the candidates, in the order of moves.
WorstTable(live, moves) == [i \in 1 .. Len(moves) |-> Worst(live, moves[i])] @@ <<>>

\* chess.js makeBestAIMove lines 453-464: the forEach over moves[i..], acc
\* holding best and bestScore (has = FALSE while bestScore is Infinity).
RECURSIVE BestFrom(_, _, _, _)
BestFrom(moves, worst, i, acc) ==
    IF i > Len(moves) THEN acc
    ELSE BestFrom(moves, worst, i + 1,
                  IF ~acc.has \/ worst[i] < acc.bestScore
                  THEN [has |-> TRUE, best |-> moves[i], bestScore |-> worst[i]]
                  ELSE acc)

NoMove == Move(0, 0, 0, 0)

NoBest == [has |-> FALSE, best |-> NoMove, bestScore |-> 0]

\* The move makeBestAIMove hands to performMove (has = FALSE: none).
AIChoice(bs) ==
    CHOOSE c \in UNION { { BestFrom(moves, worst, 1, NoBest) :
                              worst \in { WorstTable(bs, moves) } } :
                          moves \in { allLegalMovesFor(bs, "black") } } : TRUE

\* chess.js makeBestAIMove
makeBestAIMove(s) ==
    LET c == AIChoice(s.boardState)
    IN  IF c.has THEN performMove(s, c.best) ELSE s

(***************************************************************************)
(* The same handlers for a caller that hands in any integers as            *)
(* coordinates.  A JS array read outside its bounds gives undefined (like a *)
(* null cell here), indexing an undefined row throws a TypeError, and a     *)
(* write to row[x] with x outside 0..7 adds that cell to the row.           *)
(***************************************************************************)
\* JS bs[z][x] for a row z of the grid.
Get(bs, z, x) == IF x \in DOMAIN bs[z] THEN bs[z][x] ELSE Null

\* JS bs[z][x] = v for a row z of the grid.
Put(bs, z, x, v) ==
    [bs EXCEPT ![z] = [c \in (DOMAIN bs[z]) \cup {x} |-> IF c = x THEN v ELSE bs[z][c]]]

\* The while loop of chess.js isPathClear with its unguarded read bs[z][x]:
\* "true", "false" or "throw".
RECURSIVE PathLoopAny(_, _, _, _, _, _, _)
PathLoopAny(bs, x, z, tX, tZ, sx, sz) ==
    IF x # tX \/ z # tZ
    THEN IF z \notin Rng THEN "throw"
         ELSE IF Get(bs, z, x) # Null THEN "false"
         ELSE PathLoopAny(bs, x + sx, z + sz, tX, tZ, sx, sz)
    ELSE "true"

isPathClearAny(bs, fX, fZ, tX, tZ) ==
    PathLoopAny(bs, fX + Sign(tX - fX), fZ + Sign(tZ - fZ), tX, tZ,
                Sign(tX - fX), Sign(tZ - fZ))

Truth(b) == IF b THEN "true" ELSE "false"

\* chess.js isPseudoLegal(move, bs) with fromZ a row of the grid:
\* "true", "false" or "throw".
isPseudoLegalAny(move, bs) ==
    LET piece == Get(bs, move.fromZ, move.fromX)
        dx == move.toX - move.fromX
        dz == move.toZ - move.fromZ
        adx == Abs(dx)
        adz == Abs(dz)
        target == IF move.toZ \in Rng THEN Get(bs, move.toZ, move.toX) ELSE Null
    IN  IF piece = Null THEN "false"
        ELSE IF target # Null /\ target.color = piece.color THEN "false"
        ELSE CASE piece.type = "pawn" ->
                    LET dir == IF piece.color = "white" THEN -1 ELSE 1
                        start == IF piece.color = "white" THEN 6 ELSE 1
                    IN  IF dx = 0
                        THEN IF dz = dir /\ target = Null THEN "true"
                             ELSE Truth(/\ dz = 2 * dir
                                        /\ move.fromZ = start
                                        /\ target = Null
                                        /\ Get(bs, move.fromZ + dir, move.fromX) = Null)
                        ELSE Truth(/\ Abs(dx) = 1
                                   /\ dz = dir
                                   /\ target # Null
                                   /\ target.color # piece.color)
               [] piece.type = "rook" ->
                    IF dx # 0 /\ dz # 0 THEN "false"
                    ELSE isPathClearAny(bs, move.fromX, move.fromZ, move.toX, move.toZ)
               [] piece.type = "bishop" ->
                    IF adx # adz THEN "false"
                    ELSE isPathClearAny(bs, move.fromX, move.fromZ, move.toX, move.toZ)
               [] piece.type = "queen" ->
                    IF dx = 0 \/ dz = 0 \/ adx = adz
                    THEN isPathClearAny(bs, move.fromX, move.fromZ, move.toX, move.toZ)
                    ELSE "false"
               [] piece.type = "knight" ->
                    Truth((adx = 1 /\ adz = 2) \/ (adx = 2 /\ adz = 1))
               [] piece.type = "king" -> Truth(MaxOf(adx, adz) = 1)
               [] OTHER -> "false"

\* chess.js applyMoveOnClone on rows fromZ and toZ of the grid.
applyMoveOnCloneAny(bs, move) ==
    LET piece == Get(bs, move.fromZ, move.fromX)
        b2 == Put(Put(bs, move.toZ, move.toX, piece), move.fromZ, move.fromX, Null)
    IN  IF piece # Null /\ piece.type = "pawn" /\ (move.toZ = 0 \/ move.toZ = 7)
        THEN [b2 EXCEPT ![move.toZ][move.toX].type = "queen"]
        ELSE b2

\* chess.js isLegalMove(move, player) on the live board bs: "true", "false",
\* or "throw" for the TypeError of line 221 (boardState[fromZ] undefined), of
\* isPathClear (bs[z] undefined) or of applyMoveOnClone (bs[toZ] undefined).
isLegalMoveAny(bs, move, player) ==
    IF move.fromZ \notin Rng THEN "throw"
    ELSE IF Get(bs, move.fromZ, move.fromX) = Null
            \/ Get(bs, move.fromZ, move.fromX).color # player THEN "false"
    ELSE IF isPseudoLegalAny(move, bs) # "true" THEN isPseudoLegalAny(move, bs)
    ELSE IF move.toZ \notin Rng THEN "throw"
    ELSE Truth(~isKingInCheck(applyMoveOnCloneAny(cloneBoard(bs), move), player))

\* chess.js performMove for a move isLegalMove returned true for.
performMoveAny(s, move) ==
    LET from == Get(s.boardState, move.fromZ, move.fromX)
        target == Get(s.boardState, move.toZ, move.toX)
        mover == s.currentPlayer
        entry == [move |-> move,
                  captured |-> IF target # Null
                               THEN [type |-> target.type, color |-> target.color]
                               ELSE Null,
                  mover |-> mover]
        b2 == Put(Put(s.boardState, move.toZ, move.toX,
                      [type |-> from.type, color |-> from.color]),
                  move.fromZ, move.fromX, Null)
    IN  FinishMove([s EXCEPT
            !.moveHistory = Append(@, entry),
            !.captured = IF target # Null
                         THEN [s.captured EXCEPT ![mover] = Append(@, target.type)]
                         ELSE s.captured,
            !.boardState = IF from.type = "pawn" /\ (move.toZ = 0 \/ move.toZ = 7)
                           THEN [b2 EXCEPT ![move.toZ][move.toX].type = "queen"]
                           ELSE b2])

\* chess.js onPointerDown lines 199-209 for any integer coordinates: the
\* state the call leaves and whether it ended in an uncaught TypeError.
onPointerDownAny(s, move) ==
    IF s.gameState # "playing" THEN [state |-> s, fault |-> FALSE]
    ELSE CASE isLegalMoveAny(s.boardState, move, s.currentPlayer) = "throw" ->
                 [state |-> s, fault |-> TRUE]
           [] isLegalMoveAny(s.boardState, move, s.currentPlayer) = "true" ->
                 [state |-> performMoveAny(s, move), fault |-> FALSE]
           [] OTHER -> [state |-> s, fault |-> FALSE]

(***************************************************************************)
(* The state machine.                                                      *)
(***************************************************************************)
VARIABLES boardState, currentPlayer, gameState, statusBox, moveHistory,
          captured, useAI, timers,
          tries,    \* the moves the external caller attempts in this run
          steps,    \* handler calls made since the initial state of the run
          lastOp    \* the last handler call: its name, the move it was given,
                    \* chose or took back, and the piece an applied move moved

vars == <<boardState, currentPlayer, gameState, statusBox, moveHistory,
          captured, useAI, timers, tries, steps, lastOp>>

\* Handler calls explored after the initial state of a run.
MaxSteps == 3

\* Pending makeBestAIMove callbacks.
MaxTimers == 1

State ==
    [boardState |-> boardState, currentPlayer |-> currentPlayer,
     gameState |-> gameState, statusBox |-> statusBox,
     moveHistory |-> moveHistory, captured |-> captured,
     useAI |-> useAI, timers |-> timers]

Becomes(t) ==
    /\ boardState' = t.boardState
    /\ currentPlayer' = t.currentPlayer
    /\ gameState' = t.gameState
    /\ statusBox' = t.statusBox
    /\ moveHistory' = t.moveHistory
    /\ captured' = t.captured
    /\ useAI' = t.useAI
    /\ timers' = t.timers

\* chess.js lines 17-22 and startup lines 92-93: the state after construction.
StartState ==
    [boardState |-> createPieces(initBoardState), currentPlayer |-> "white",
     gameState |-> "playing", statusBox |-> "",
     moveHistory |-> <<>>, captured |-> [white |-> <<>>, black |-> <<>>],
     useAI |-> FALSE, timers |-> 0]

\* A move in chess notation: files a..h are 1..8, ranks 1..8 count from
\* white's back rank (z = 7) to black's (z = 0).
Alg(f1, r1, f2, r2) == Move(f1 - 1, SIZE - r1, f2 - 1, SIZE - r2)

\* The external caller clicking the moves ms[i..] one after the other.
RECURSIVE Play(_, _, _)
Play(s, ms, i) ==
    IF i > Len(ms) THEN s
    ELSE CHOOSE r \in { Play(t, ms, i + 1) : t \in { onPointerDown(s, ms[i]) } } : TRUE

\* 1. e4 d5: a capture and a check are on offer.
OpenGame == << Alg(5, 2, 5, 4), Alg(4, 7, 4, 5) >>

\* 1. f3 e5 2. g4: black mates with Qh4.
FoolsMate == << Alg(6, 2, 6, 3), Alg(5, 7, 5, 5), Alg(7, 2, 7, 4) >>

\* 1. h4 a5 2. h5 a4 3. h6 a3 4. hxg7 axb2: both sides promote by capture.
PawnRace == << Alg(8, 2, 8, 4), Alg(1, 7, 1, 5), Alg(8, 4, 8, 5), Alg(1, 5, 1, 4),
               Alg(8, 5, 8, 6), Alg(1, 4, 1, 3), Alg(8, 6, 7, 7), Alg(1, 3, 2, 2) >>

\* 1. e3 a5 2. Qh5 Ra6 3. Qxa5 h5 4. h4 Rah6 5. Qxc7 f6 6. Qxd7+ Kf7
\* 7. Qxb7 Qd3 8. Qxb8 Qh7 9. Qxc8 Kg6: 10. Qe6 stalemates black.
QuickStalemate ==
    << Alg(5, 2, 5, 3), Alg(1, 7, 1, 5), Alg(4, 1, 8, 5), Alg(1, 8, 1, 6),
       Alg(8, 5, 1, 5), Alg(8, 7, 8, 5), Alg(8, 2, 8, 4), Alg(1, 6, 8, 6),
       Alg(1, 5, 3, 7), Alg(6, 7, 6, 6), Alg(3, 7, 4, 7), Alg(5, 8, 6, 7),
       Alg(4, 7, 2, 7), Alg(4, 8, 4, 3), Alg(2, 7, 2, 8), Alg(4, 3, 8, 7),
       Alg(2, 8, 3, 8), Alg(6, 7, 7, 6) >>

\* 1. e4 Nf6 2. d3: the e4 pawn is attacked and defended.
DefendedPawn == << Alg(5, 2, 5, 4), Alg(7, 8, 6, 6), Alg(4, 2, 4, 3) >>

\* 1. d4 e5 2. dxe5 f6 3. exf6 Ne7 4. fxe7 a6: a white pawn on e7 in front of
\* the black king, about to promote by capture on d8 or f8.
PawnAtKing == << Alg(4, 2, 4, 4), Alg(5, 7, 5, 5), Alg(4, 4, 5, 5), Alg(6, 7, 6, 6),
                 Alg(5, 5, 6, 6), Alg(7, 8, 5, 7), Alg(6, 6, 5, 7), Alg(1, 7, 1, 6) >>

\* 1. e4 g5 2. a3 g4 3. a4 g3 4. a5 e6 5. h3 Bc5 6. h4 gxf2+ 7. Ke2: a black
\* pawn on f2 guarded by the c5 bishop, about to promote by capture on g1.
GuardedPawn == << Alg(5, 2, 5, 4), Alg(7, 7, 7, 5), Alg(1, 2, 1, 3), Alg(7, 5, 7, 4),
                  Alg(1, 3, 1, 4), Alg(7, 4, 7, 3), Alg(1, 4, 1, 5), Alg(5, 7, 5, 6),
                  Alg(8, 2, 8, 3), Alg(6, 8, 3, 5), Alg(8, 3, 8, 4), Alg(7, 3, 6, 2),
                  Alg(5, 1, 5, 2) >>

\* Attempts with a coordinate outside 0..7, from the standard position: from
\* a row below the board, the b1 knight to the file left of the a-file, the
\* e1 king to the row below the board, from the file right of the h-file.
OffBoard == { Move(0, 8, 0, 7), Move(1, 7, -1, 6), Move(4, 7, 4, 8), Move(8, 7, 7, 7) }

\* The runs: the game played before the run starts, and the moves the
\* external caller attempts during it (legal ones and illegal ones).
Scenarios ==
    { [setup |-> <<>>,
       tries |-> { Alg(5, 2, 5, 4), Alg(5, 7, 5, 5), Alg(5, 2, 5, 5) } \cup OffBoard],
      [setup |-> OpenGame,
       tries |-> { Alg(5, 4, 4, 5), Alg(6, 1, 2, 5), Alg(3, 7, 3, 6),
                   Alg(1, 7, 1, 6), Alg(4, 8, 4, 5) }],
      [setup |-> FoolsMate,
       tries |-> { Alg(4, 8, 8, 4), Alg(1, 7, 1, 6), Alg(5, 2, 5, 3) }],
      [setup |-> PawnRace,
       tries |-> { Alg(7, 7, 8, 8), Alg(7, 7, 6, 8), Alg(7, 7, 7, 8),
                   Alg(2, 2, 1, 1), Alg(5, 8, 6, 8) }],
      [setup |-> QuickStalemate,
       tries |-> { Alg(3, 8, 5, 6), Alg(3, 8, 6, 8), Alg(8, 5, 7, 4) }],
      [setup |-> DefendedPawn,
       tries |-> { Alg(6, 6, 5, 4), Alg(4, 3, 5, 4), Alg(1, 7, 1, 6) }],
      [setup |-> PawnAtKing,
       tries |-> { Alg(5, 7, 4, 8), Alg(5, 7, 5, 8), Alg(5, 8, 5, 7) }],
      [setup |-> GuardedPawn,
       tries |-> { Alg(6, 2, 7, 1), Alg(5, 1, 6, 2) }] }

NoOp == [op |-> "init", move |-> NoMove, piece |-> Null]

Init ==
    \E sc \in Scenarios :
        \E t \in { Play(StartState, sc.setup, 1) } :
            /\ boardState = t.boardState
            /\ currentPlayer = t.currentPlayer
            /\ gameState = t.gameState
            /\ statusBox = t.statusBox
            /\ moveHistory = t.moveHistory
            /\ captured = t.captured
            /\ useAI = t.useAI
            /\ timers = t.timers
            /\ tries = sc.tries
            /\ steps = 0
            /\ lastOp = NoOp

\* One handler call: the engine takes the state t the handler leaves.
Call(name, move, t) ==
    /\ t.timers <= MaxTimers
    /\ Becomes(t)
    /\ steps' = steps + 1
    /\ lastOp' = [op |-> name, move |-> move,
                  piece |-> IF name \in {"move", "ai"}
                            THEN boardState[move.fromZ][move.fromX] ELSE Null]
    /\ UNCHANGED tries

\* The external caller selects the piece on (fromX, fromZ) and clicks the
\* square (toX, toZ): chess.js onPointerDown.
AttemptMove(m) ==
    /\ steps < MaxSteps
    /\ \E t \in { onPointerDown(State, m) } :
          Call(IF gameState # "playing" THEN "ignored"
               ELSE IF isLegalMove(boardState, m, currentPlayer) THEN "move"
               ELSE "rejected", m, t)

\* The undo button: chess.js undoMove.
\* An attempt with a coordinate outside the board.
AttemptWild(m) ==
    /\ steps < MaxSteps
    /\ \E r \in { onPointerDownAny(State, m) } :
          Call(IF gameState # "playing" THEN "wild-ignored"
               ELSE IF r.fault THEN "wild-fault"
               ELSE IF Len(r.state.moveHistory) > Len(moveHistory) THEN "wild-accepted"
               ELSE "wild-rejected", m, r.state)

Undo ==
    /\ steps < MaxSteps
    /\ \E t \in { undoMove(State) } :
          IF Len(moveHistory) = 0 THEN Call("undo-empty", NoMove, t)
          ELSE Call("undo", moveHistory[Len(moveHistory)].move, t)

\* The new-game button: chess.js resetGame.
NewGame ==
    /\ steps < MaxSteps
    /\ \E t \in { resetGame(State) } : Call("new", NoMove, t)

\* The AI button: chess.js toggleAI.
ToggleAI ==
    /\ steps < MaxSteps
    /\ \E t \in { toggleAI(State) } : Call("toggle", NoMove, t)

\* A pending setTimeout(makeBestAIMove, ...) callback fires; "ai" when it
\* applied a move (the last history entry), "ai-none" when it returned early.
AIFire ==
    /\ steps < MaxSteps
    /\ timers > 0
    /\ \E t \in { makeBestAIMove([State EXCEPT !.timers = @ - 1]) } :
          IF Len(t.moveHistory) > Len(moveHistory)
          THEN Call("ai", t.moveHistory[Len(t.moveHistory)].move, t)
          ELSE Call("ai-none", NoMove, t)

Next ==
    \/ \E m \in tries \cap AllMoves : AttemptMove(m)
    \/ \E m \in tries \ AllMoves : AttemptWild(m)
    \/ Undo
    \/ NewGame
    \/ ToggleAI
    \/ AIFire

Spec == Init /\ [][Next]_vars

\* The engine with the automated opponent left off: the external caller only
\* attempts moves and undoes them.
HumanNext ==
    \/ \E m \in tries \cap AllMoves : AttemptMove(m)
    \/ \E m \in tries \ AllMoves : AttemptWild(m)
    \/ Undo

HumanSpec == Init /\ [][HumanNext]_vars


(***************************************************************************)
(* Properties.                                                             *)
(***************************************************************************)
Colors == {"white", "black"}

\* The moves isLegalMove accepts for player on the live board.
Accepted(player) == { m \in AllMoves : isLegalMove(boardState, m, player) }

\* performMove(m) followed by undoMove() gives back the board, the turn, the
\* captured lists and the phase of s.
RoundTrip(s, m) ==
    \E u \in { undoMove(performMove(s, m)) } :
        /\ u.boardState = s.boardState
        /\ u.currentPlayer = s.currentPlayer
        /\ u.captured = s.captured
        /\ u.gameState = s.gameState

\* C1: while the game is in progress, every legal move immediately followed
\* by undo restores the board (type and color of every square), the turn,
\* both captured lists and the phase.
C1_RoundTrip ==
    gameState = "playing" =>
        \A m \in Accepted(currentPlayer) : RoundTrip(State, m)

\* C2: on every reachable board and for either color, a move isLegalMove
\* accepts leaves the mover's own king unattacked on the board the move
\* produces; so every legal move of a side in check removes the check.
C2_FilterSound ==
    \A c \in Colors :
        \A m \in Accepted(c) : ~isKingInCheck(BoardAfter(boardState, m), c)

\* The side to move is in check after an applied move and has a legal answer
\* among the moves of the run.
C2_Witness ==
    /\ lastOp.op = "move"
    /\ gameState = "playing"
    /\ isKingInCheck(boardState, currentPlayer)
    /\ \E m \in tries : isLegalMove(boardState, m, currentPlayer)

\* C3: a move attempt that isLegalMove refuses changes neither the live
\* board nor the history, the captured lists, the turn or the phase (the
\* check has run by then, its simulation included, on cloneBoard's copy).
C3_RejectedUnchanged ==
    [][lastOp'.op = "rejected" =>
          UNCHANGED <<boardState, moveHistory, captured, currentPlayer, gameState>>]_vars

\* A refused attempt whose piece does move that way: it was refused because
\* it leaves the mover's king in check.
C3_Witness ==
    /\ lastOp.op = "rejected"
    /\ boardState[lastOp.move.fromZ][lastOp.move.fromX].color = currentPlayer
    /\ isPseudoLegal(lastOp.move, boardState, FALSE)

\* The side to move has no legal move.
NoLegalMove == Len(allLegalMovesFor(boardState, currentPlayer)) = 0

\* C4: right after every applied move the phase is ended exactly when the
\* new side to move has no legal move, and then the status names that side
\* as checkmated when its king is attacked and says stalemate otherwise.
C4_EndedIffNoMove ==
    lastOp.op \in {"move", "ai"} =>
        /\ gameState = "ended" <=> NoLegalMove
        /\ gameState = "ended" =>
              statusBox = IF isKingInCheck(boardState, currentPlayer)
                          THEN StatusCheckmated(currentPlayer)
                          ELSE "Stalemate"

\* The history entry of the move applied last.
LastEntry == moveHistory[Len(moveHistory)]

\* C5: whatever the interleaving of move attempts, undo, new game, AI
\* toggles and deferred AI moves, a move applied to the live board moves a
\* piece of the color whose turn it is: the entry's mover is the color of
\* the moved piece and a captured piece is never of the mover's color.
C5_MoverOwnsPiece ==
    [][lastOp'.op \in {"move", "ai"} =>
          /\ lastOp'.piece.color = currentPlayer
          /\ LastEntry'.mover = lastOp'.piece.color
          /\ LastEntry'.captured # Null => LastEntry'.captured.color # LastEntry'.mover]_vars

\* The types captured by color c according to the history entries h[i..].
RECURSIVE CapturedBy(_, _, _)
CapturedBy(h, c, i) ==
    IF i > Len(h) THEN <<>>
    ELSE IF h[i].mover = c /\ h[i].captured # Null
         THEN <<h[i].captured.type>> \o CapturedBy(h, c, i + 1)
         ELSE CapturedBy(h, c, i + 1)

Booked == \A c \in Colors : captured[c] = CapturedBy(moveHistory, c, 1)

\* C6: in every reachable state the captured list of each color is, in
\* order, the captured types of the history entries that color made; an
\* applied move appends the captured type to the mover's list when it
\* captures and nothing otherwise; undo of a capturing move drops the last
\* entry of the mover's list and puts the recorded piece back on the
\* destination square.
C6_CaptureBookkeeping ==
    /\ Booked
    /\ [][/\ Booked'
          /\ lastOp'.op \in {"move", "ai"} =>
                LET target == boardState[lastOp'.move.toZ][lastOp'.move.toX]
                IN  captured' = IF target # Null
                                THEN [captured EXCEPT ![currentPlayer] = Append(@, target.type)]
                                ELSE captured
          /\ lastOp'.op = "undo" /\ LastEntry.captured # Null =>
                /\ captured' = [captured EXCEPT ![LastEntry.mover] =
                                                    SubSeq(@, 1, Len(@) - 1)]
                /\ boardState'[LastEntry.move.toZ][LastEntry.move.toX] = LastEntry.captured]_vars

\* A capture has just been taken back: the captured piece stands on the
\* destination square again while other captures remain booked.
C6_Witness ==
    /\ lastOp.op = "undo"
    /\ boardState[lastOp.move.toZ][lastOp.move.toX] # Null
    /\ Len(captured["white"]) + Len(captured["black"]) > 0

\* No pawn stands on row 0 or row 7.
NoPawnOnLastRows ==
    \A x \in Rng : boardState[0][x].type # "pawn" /\ boardState[SIZE - 1][x].type # "pawn"

\* C7: an applied pawn move that lands on the terminal row (row 0 for
\* white, row 7 for black) leaves a queen of the pawn's color on the
\* destination square; hence no pawn ever stands on row 0 or row 7.
C7_PromotionToQueen ==
    /\ NoPawnOnLastRows
    /\ [][/\ NoPawnOnLastRows'
          /\ ( /\ lastOp'.op \in {"move", "ai"}
               /\ lastOp'.piece.type = "pawn"
               /\ lastOp'.move.toZ = IF lastOp'.piece.color = "white" THEN 0 ELSE SIZE - 1 )
             => boardState'[lastOp'.move.toZ][lastOp'.move.toX] =
                   [type |-> "queen", color |-> lastOp'.piece.color]]_vars

\* A black pawn has just moved to row 7.
C7_Witness ==
    /\ lastOp.op \in {"move", "ai"}
    /\ lastOp.piece = [type |-> "pawn", color |-> "black"]
    /\ lastOp.move.toZ = SIZE - 1
    /\ boardState[lastOp.move.toZ][lastOp.move.toX].type = "queen"

\* n presses of the undo button.
RECURSIVE UndoTimes(_, _)
UndoTimes(s, n) ==
    IF n = 0 THEN s
    ELSE CHOOSE r \in { UndoTimes(u, n - 1) : u \in { undoMove(s) } } : TRUE

\* As many undos as the history has entries empty it.
UndoEmpties == UndoTimes(State, Len(moveHistory)).moveHistory = <<>>

\* C8: undo with an empty history changes nothing (board, captured lists,
\* turn, phase); with a non-empty history it removes exactly the last
\* entry, gives the turn to that entry's mover and sets the phase to
\* playing, so that repeated undo reaches the empty history.
C8_UndoEffect ==
    /\ UndoEmpties
    /\ [][/\ UndoEmpties'
          /\ lastOp'.op = "undo-empty" =>
                UNCHANGED <<boardState, captured, currentPlayer, gameState, moveHistory>>
          /\ lastOp'.op = "undo" =>
                /\ moveHistory' = SubSeq(moveHistory, 1, Len(moveHistory) - 1)
                /\ currentPlayer' = LastEntry.mover
                /\ gameState' = "playing"]_vars

\* The move just taken back had ended the game: played again, it leaves the
\* opponent without a legal move.
C8_Witness ==
    /\ lastOp.op = "undo"
    /\ isLegalMove(boardState, lastOp.move, currentPlayer)
    /\ Len(allLegalMovesFor(BoardAfter(boardState, lastOp.move), Other(currentPlayer))) = 0

BackRank == <<"rook", "knight", "bishop", "queen", "king", "bishop", "knight", "rook">>

\* Black back rank on row 0, black pawns on row 1, white pawns on row 6,
\* white back rank on row 7, nothing elsewhere.
StandardSetup ==
    [z \in Rng |-> [x \in Rng |->
        CASE z = 0 -> [type |-> BackRank[x + 1], color |-> "black"]
          [] z = 1 -> [type |-> "pawn", color |-> "black"]
          [] z = 6 -> [type |-> "pawn", color |-> "white"]
          [] z = 7 -> [type |-> BackRank[x + 1], color |-> "white"]
          [] OTHER -> Null]]

\* C9: from any reachable state, new game leaves the standard initial
\* setup, an empty history, two empty captured lists, white to move and the
\* phase playing.
C9_NewGameStandard ==
    \E t \in { resetGame(State) } :
        /\ t.boardState = StandardSetup
        /\ t.moveHistory = <<>>
        /\ t.captured = [white |-> <<>>, black |-> <<>>]
        /\ t.currentPlayer = "white"
        /\ t.gameState = "playing"
        /\ lastOp.op = "new" =>
              /\ boardState = t.boardState
              /\ moveHistory = t.moveHistory
              /\ captured = t.captured
              /\ currentPlayer = t.currentPlayer
              /\ gameState = t.gameState

\* New game has just been pressed over a game that had gone on: an AI move
\* scheduled in that game is still pending.
C9_Witness ==
    /\ lastOp.op = "new"
    /\ timers > 0
    /\ boardState = StandardSetup

\* The largest element of a non-empty set of integers.
Largest(S) == CHOOSE w \in S : \A v \in S : v <= w

\* The value of the position r that a black move produced: the largest
\* material score white can reach by a reply legal in r, or the material
\* score of r itself when white has no legal reply there.
PositionValue(r) ==
    \* replies is bound once, to the legal white moves of r
    CHOOSE w \in { IF Len(replies) = 0 THEN evaluateMaterial(r)
                   ELSE Largest({ evaluateMaterial(applyMoveOnClone(cloneBoard(r), replies[i])) :
                                    i \in 1 .. Len(replies) }) :
                   replies \in { allLegalMovesFor(r, "white") } } : TRUE

\* V(m) on the board bs.
V(bs, m) ==
    CHOOSE w \in { PositionValue(r) : r \in { applyMoveOnClone(cloneBoard(bs), m) } } : TRUE

\* m is a legal black move on bs whose V is the least among the legal black
\* moves on bs.
MinimaxChoice(bs, m) ==
    /\ isLegalMove(bs, m, "black")
    /\ \E moves \in { allLegalMovesFor(bs, "black") } :
          \E vm \in { V(bs, m) } :
              \A i \in 1 .. Len(moves) : vm <= V(bs, moves[i])

\* C10: the move the automated opponent applies is a legal black move m
\* that minimizes V(m), the largest material score over white's replies
\* that are legal in the position m produces (the material score of that
\* position when white has no legal reply).
C10_DepthTwoMinimax ==
    [][lastOp'.op = "ai" => MinimaxChoice(boardState, lastOp'.move)]_vars

\* i is the first index of the least entry of the score table w.
FirstLeast(w, i) ==
    /\ \A j \in 1 .. Len(w) : w[i] <= w[j]
    /\ \A j \in 1 .. (i - 1) : w[j] > w[i]

\* The opponent-best scores V of the candidates, in the order of moves.
VTable(bs, moves) == [i \in 1 .. Len(moves) |-> V(bs, moves[i])] @@ <<>>

\* m is the first move, in the enumeration order of the candidates (from
\* squares row by row, destinations in generation order), among those whose
\* opponent-best score V is least.
FirstMinimal(bs, m) ==
    \E moves \in { allLegalMovesFor(bs, "black") } :
        \E w \in { VTable(bs, moves) } :
            \E i \in 1 .. Len(moves) : FirstLeast(w, i) /\ moves[i] = m

\* C11: the move the search chooses is fixed by the board alone: it is the
\* first in enumeration order among the candidates with the least
\* opponent-best score, so two engine states with the same board get the
\* same move.
C11_SearchDeterminism ==
    [][lastOp'.op = "ai" => FirstMinimal(boardState, lastOp'.move)]_vars

\* The automated opponent is due: it is enabled, the game is in progress,
\* it is black's turn and black has a legal move.
AIDue ==
    /\ useAI
    /\ gameState = "playing"
    /\ currentPlayer = "black"
    /\ ~NoLegalMove

\* C12: whenever the automated opponent is enabled, the phase is playing
\* and it is black's turn, an automated black move follows without further
\* external input once the deferred callbacks fire.  Only a pending
\* makeBestAIMove callback can apply that move, so the claim requires that
\* one is pending whenever the opponent is due.
C12_AIMovePending == AIDue => timers > 0

\* C13: the automated opponent applies a move only in a state where it is
\* enabled, the turn is black and the phase is playing.
C13_AIOnlyWhenDue ==
    [][lastOp'.op = "ai" =>
          useAI /\ currentPlayer = "black" /\ gameState = "playing"]_vars

(***************************************************************************)
(* C14.  A move attempt with a from- or to-coordinate outside 0..7 on      *)
(* either axis is rejected without an exception and leaves the board, the  *)
(* history, the captured lists, the turn and the phase unchanged.          *)
(***************************************************************************)
C14_OutOfRangeRejected ==
    [][lastOp'.op \in {"wild-ignored", "wild-fault", "wild-rejected", "wild-accepted"}
          => /\ lastOp'.op \in {"wild-ignored", "wild-rejected"}
             /\ UNCHANGED <<boardState, moveHistory, captured, currentPlayer, gameState>>]_vars

(***************************************************************************)
(* C15.  In every reachable state the board holds exactly one white king    *)
(* and exactly one black king: a king is never captured.                    *)
(***************************************************************************)
Kings(bs, color) ==
    { sq \in Rng \X Rng : bs[sq[2]][sq[1]] = [type |-> "king", color |-> color] }

C15_OneKingEach ==
    \A color \in Colors : Cardinality(Kings(boardState, color)) = 1

(***************************************************************************)
(* C16.  With the automated opponent off, in every state reached through    *)
(* accepted moves and undo the phase is playing exactly when the side to    *)
(* move has a legal move; in particular the position an undo leaves is      *)
(* playing and gives the side to move a legal move.                         *)
(***************************************************************************)
C16_PlayingIffMovable ==
    /\ (gameState = "playing") <=> ~NoLegalMove
    /\ lastOp.op = "undo" => gameState = "playing" /\ ~NoLegalMove

(***************************************************************************)
(* C17.  The validator and the generator agree: on every board, for every   *)
(* pair of squares of the board with a piece on the first, isPseudoLegal    *)
(* in normal mode holds exactly when the second is among the destinations   *)
(* of generatePseudoMoves.  Hence the side to move passes isLegalMove with  *)
(* a move exactly when the move is in the list of allLegalMovesFor, and an  *)
(* attempt in a game in progress is applied exactly when it is in it.       *)
(***************************************************************************)
InList(seq, e) == \E i \in 1..Len(seq) : seq[i] = e

C17_ValidatorGeneratorAgree ==
    /\ \A x \in Rng, z \in Rng :
          boardState[z][x] # Null =>
             \E gen \in { generatePseudoMoves(x, z, boardState) } :
                \A tx \in Rng, tz \in Rng :
                   isPseudoLegal(Move(x, z, tx, tz), boardState, FALSE)
                      <=> InList(gen, Dest(tx, tz))
    /\ \E legal \in { allLegalMovesFor(boardState, currentPlayer) } :
          /\ \A m \in AllMoves :
                isLegalMove(boardState, m, currentPlayer) <=> InList(legal, m)
          /\ gameState = "playing" =>
                \A m \in tries \cap AllMoves :
                   Len(onPointerDown(State, m).moveHistory) > Len(moveHistory)
                      <=> InList(legal, m)

\* An attempt with an own pawn was just rejected: the validator refuses the
\* destination and the generator, which has others for that pawn, lacks it.
C17_Witness ==
    /\ lastOp.op = "rejected"
    /\ boardState[lastOp.move.fromZ][lastOp.move.fromX]
          = [type |-> "pawn", color |-> currentPlayer]
    /\ ~isPseudoLegal(lastOp.move, boardState, FALSE)
    /\ Len(generatePseudoMoves(lastOp.move.fromX, lastOp.move.fromZ, boardState)) > 0
    /\ \E m \in tries \cap AllMoves :
          InList(allLegalMovesFor(boardState, currentPlayer), m)

(***************************************************************************)
(* C18.  Once the phase is ended no move is applied, neither by an attempt  *)
(* of the external caller nor by a deferred automated move: board, history, *)
(* captured lists and turn stay as they are until undo or new game.         *)
(***************************************************************************)
C18_EndedIsFrozen ==
    [][gameState = "ended" /\ lastOp'.op \notin {"undo", "undo-empty", "new"}
          => UNCHANGED <<boardState, moveHistory, captured, currentPlayer>>]_vars

(***************************************************************************)
(* C19.  With the automated opponent off, in every state reached through    *)
(* accepted moves and undo the king of the side that is not to move is not  *)
(* attacked: the side to move can never capture the opposing king.          *)
(***************************************************************************)
C19_WaitingKingSafe ==
    /\ ~isKingInCheck(boardState, Other(currentPlayer))
    /\ \A m \in AllMoves :
          isLegalMove(boardState, m, currentPlayer)
             => boardState[m.toZ][m.toX] # [type |-> "king", color |-> Other(currentPlayer)]

(***************************************************************************)
(* C20.  In every reachable state, deferred automated moves included, the   *)
(* turn is white exactly when the history has even length, and the movers   *)
(* recorded in the history alternate white, black, white, ... from white.   *)
(***************************************************************************)
C20_TurnParity ==
    /\ (currentPlayer = "white") <=> (Len(moveHistory) % 2 = 0)
    /\ \A i \in 1..Len(moveHistory) :
          moveHistory[i].mover = IF i % 2 = 1 THEN "white" ELSE "black"

\* A deferred automated move has just moved a black piece on white's turn
\* and stands in the history with white as its mover.
C20_Witness ==
    /\ lastOp.op = "ai"
    /\ lastOp.piece.color = "black"
    /\ LastEntry.mover = "white"
    /\ LastEntry.move = lastOp.move

(***************************************************************************)
(* C21.  While the automated opponent is enabled no black move is applied   *)
(* from external input: an attempt of the external caller that is applied   *)
(* while it is enabled is a move of a white piece on white's turn.          *)
(***************************************************************************)
C21_NoExternalBlackMove ==
    [][useAI /\ lastOp'.op = "move"
          => currentPlayer = "white" /\ lastOp'.piece.color = "white"]_vars

(***************************************************************************)
(* C22.  Simulation mirrors execution: for every legal move on every board  *)
(* the type and color contents of the live board after performMove equal    *)
(* applyMoveOnClone applied to a copy of the board before the move,         *)
(* capture and promotion to queen included.                                 *)
(***************************************************************************)
C22_SimulationMirrorsExecution ==
    \E copy \in { cloneBoard(boardState) } :
       /\ \A c \in Colors, m \in AllMoves :
             isLegalMove(boardState, m, c) =>
                cloneBoard(BoardAfter(boardState, m)) = applyMoveOnClone(copy, m)
       /\ \A m \in tries \cap AllMoves :
             isLegalMove(boardState, m, currentPlayer) =>
                cloneBoard(performMove(State, m).boardState) = applyMoveOnClone(copy, m)

\* A pawn has just promoted by capture, and the live board is what the
\* simulation makes of the board before that move.
C22_Witness ==
    /\ lastOp.op = "move"
    /\ lastOp.piece.type = "pawn"
    /\ lastOp.move.toZ \in {0, 7}
    /\ LastEntry.captured # Null
    /\ boardState[lastOp.move.toZ][lastOp.move.toX].type = "queen"
    /\ \E pre \in { [undoMove(State).boardState EXCEPT
                        ![lastOp.move.fromZ][lastOp.move.fromX] = lastOp.piece] } :
          cloneBoard(boardState) = applyMoveOnClone(cloneBoard(pre), lastOp.move)

(***************************************************************************)
(* C23.  On a board that holds no king of a color, isKingInCheck returns    *)
(* true for that color, and therefore isLegalMove rejects every move of     *)
(* that color on such a board.  Checked on the boards the runs reach and    *)
(* on each of them with the kings of one color taken off.                   *)
(***************************************************************************)
WithoutKing(bs, color) ==
    [z \in DOMAIN bs |-> [x \in DOMAIN bs[z] |->
        IF bs[z][x] = [type |-> "king", color |-> color] THEN Null ELSE bs[z][x]]]

C23_MissingKingIsInCheck ==
    \A color \in Colors :
       \E b \in { WithoutKing(boardState, color) } :
          /\ Kings(b, color) = {}
          /\ isKingInCheck(b, color)
          /\ \A m \in AllMoves : ~isLegalMove(b, m, color)
          /\ Len(allLegalMovesFor(b, color)) = 0
          /\ (b = boardState /\ color = currentPlayer) =>
                \A m \in tries \cap AllMoves : onPointerDown(State, m) = State

\* The king of the side to move has just been captured; that side still has
\* pieces that could move, and the evaluator has found no legal move for it.
C23_Witness ==
    /\ lastOp.op \in {"move", "ai"}
    /\ LastEntry.captured # Null
    /\ LastEntry.captured.type = "king"
    /\ Kings(boardState, currentPlayer) = {}
    /\ \E m \in AllMoves :
          /\ boardState[m.fromZ][m.fromX] # Null
          /\ boardState[m.fromZ][m.fromX].color = currentPlayer
          /\ isPseudoLegal(m, boardState, FALSE)
    /\ gameState = "ended"

====
